---- MODULE Spec2Model ----
(***************************************************************************)
(* A model of the OpsCopilot demo: the result parser, the context memory,  *)
(* the logging middleware and the workflow executors of                    *)
(* src/opscopilot-devui-demo/opscopilot.                                   *)
(*                                                                         *)
(* Strings that the code only copies are atoms; a text the code scans      *)
(* (memory.py's regular expressions) is a sequence of one-character        *)
(* strings. A real number in [0, 1] is an integer number of hundredths.    *)
(***************************************************************************)
EXTENDS Integers, Sequences, FiniteSets, TLC

VARIABLES
    response,   \* the stage output handed to a parser
    parsed,     \* what the parser call produced, and for which shape
    mem,        \* the shared OpsMemory: its three fields
    request,    \* the request messages of the delegation under study
    recorded,   \* whether invoked has been called on the memory
    lastOp,     \* the last call on the memory: its name, the memory before
                \* it and what it returned
    mwIn,       \* a middleware invocation: the contexts and wrapped steps
    mwOut,      \* what the wrappers logged, raised and left in the context
    graph,      \* the executor chain of the workflow: "simplified", "staged"
    runNo,      \* the number of the pipeline run
    pc,         \* where the run is: the executor whose turn it is, or its end
    incident,   \* the incident of the run
    outbox,     \* the request messages sent to the agent executor
    triage,     \* the triage decision of the run, once stage 1 is parsed
    plan,       \* the response plan of the run, once stage 2 is parsed
    stages,     \* the stages the run has passed through, in order
    log,        \* the diagnostic stream and the calls of the run, in order
    outputs,    \* the reports the run has yielded
    failure     \* the error the run ended on

parserVars == <<response, parsed>>
memVars == <<mem, request, recorded, lastOp>>
mwVars == <<mwIn, mwOut>>
pipeVars == <<graph, runNo, pc, incident, outbox, triage, plan, stages, log,
              outputs, failure>>
vars == <<response, parsed, mem, request, recorded, lastOp, mwIn, mwOut,
          graph, runNo, pc, incident, outbox, triage, plan, stages, log,
          outputs, failure>>

(***************************************************************************)
(* Bounds of the model.                                                    *)
(***************************************************************************)
\* longest list-shaped stage output
MaxItems == 2

(***************************************************************************)
(* JSON values: what json text decodes to and what a dict holds.           *)
(***************************************************************************)
JStr(s) == [t |-> "str", s |-> s]
JNum(n) == [t |-> "num", n |-> n]
JBool(b) == [t |-> "bool", b |-> b]
JNull == [t |-> "null"]
JList(l) == [t |-> "list", l |-> l]

IsStr(m, f) == f \in DOMAIN m /\ m[f].t = "str"
IsNum(m, f) == f \in DOMAIN m /\ m[f].t = "num"
IsBool(m, f) == f \in DOMAIN m /\ m[f].t = "bool"

(***************************************************************************)
(* The typed shapes (models.py). TriageResult and FinalPlan are pydantic   *)
(* models; their field rules are the data model's.                         *)
(***************************************************************************)
Categories == {"Incident", "Question", "Change", "Security"}
Severities == {"Sev1", "Sev2", "Sev3"}
ApprovalActions == {"restart_service", "open_sev1_bridge"}

\* confidence 0.0 and 1.0, in hundredths
ConfidenceMin == 0
ConfidenceMax == 100

TriageFields ==
    {"category", "severity", "confidence", "next_action", "needs_approval",
     "approval_action"}

PlanFields == {"summary", "steps", "customer_message", "internal_note"}

\* A fully populated TriageResult: every field present and within its type.
IsTriageResult(v) ==
    /\ DOMAIN v = TriageFields
    /\ v.category \in Categories
    /\ v.severity \in Severities
    /\ v.confidence \in ConfidenceMin..ConfidenceMax
    /\ v.needs_approval \in BOOLEAN
    /\ v.approval_action \in ApprovalActions \cup {"None"}

\* A fully populated FinalPlan.
IsFinalPlan(v) ==
    /\ DOMAIN v = PlanFields
    /\ v.steps \in Seq(STRING)

\* Whether a mapping validates as a TriageResult (approval_action alone is
\* optional and defaults to None).
TriageValidates(m) ==
    /\ IsStr(m, "category") /\ m["category"].s \in Categories
    /\ IsStr(m, "severity") /\ m["severity"].s \in Severities
    /\ IsNum(m, "confidence")
    /\ m["confidence"].n \in ConfidenceMin..ConfidenceMax
    /\ IsStr(m, "next_action")
    /\ IsBool(m, "needs_approval")
    /\ \/ "approval_action" \notin DOMAIN m
       \/ m["approval_action"].t = "null"
       \/ IsStr(m, "approval_action") /\ m["approval_action"].s \in ApprovalActions

\* TriageResult(**m): the instance a validating mapping gives.
TriageOf(m) ==
    [category |-> m["category"].s,
     severity |-> m["severity"].s,
     confidence |-> m["confidence"].n,
     next_action |-> m["next_action"].s,
     needs_approval |-> m["needs_approval"].b,
     approval_action |->
        IF "approval_action" \in DOMAIN m /\ m["approval_action"].t = "str"
        THEN m["approval_action"].s
        ELSE "None"]

PlanValidates(m) ==
    /\ IsStr(m, "summary")
    /\ "steps" \in DOMAIN m /\ m["steps"].t = "list"
    /\ \A i \in 1..Len(m["steps"].l) : m["steps"].l[i].t = "str"
    /\ IsStr(m, "customer_message")
    /\ IsStr(m, "internal_note")

\* FinalPlan(**m)
PlanOf(m) ==
    [summary |-> m["summary"].s,
     steps |-> [i \in 1..Len(m["steps"].l) |-> m["steps"].l[i].s],
     customer_message |-> m["customer_message"].s,
     internal_note |-> m["internal_note"].s]

(***************************************************************************)
(* Control outcomes of a block of code.                                    *)
(***************************************************************************)
Return(v) == [ctl |-> "return", value |-> v]
Raise(e) == [ctl |-> "raise", error |-> e]
FallThrough == [ctl |-> "fallthrough"]

\* T.model_validate_json(text): decode, then validate.
TriageValidateJson(text) ==
    IF text.json = "object" /\ TriageValidates(text.m)
    THEN Return(TriageOf(text.m))
    ELSE Raise("ValidationError")

PlanValidateJson(text) ==
    IF text.json = "object" /\ PlanValidates(text.m)
    THEN Return(PlanOf(text.m))
    ELSE Raise("ValidationError")

(***************************************************************************)
(* Stage outputs, by the shape the parsers test for.                       *)
(***************************************************************************)
RList(items) == [kind |-> "list", items |-> items]
RAgentResponse(text) == [kind |-> "agent_response", text |-> text]
RTriage(v) == [kind |-> "TriageResult", value |-> v]
RPlan(v) == [kind |-> "FinalPlan", value |-> v]
RDict(m) == [kind |-> "dict", m |-> m]
RStr(text) == [kind |-> "str", text |-> text]
\* None, a number, a tuple: none of the shapes tested for
ROther == [kind |-> "other"]

TextObject(m) == [json |-> "object", m |-> m]
\* text that is no json at all
TextInvalid == [json |-> "invalid"]
\* json text of a value that is no object
TextScalar == [json |-> "scalar"]

\* Mutant of the fallback TriageResult: it asks for an approval.
fallback_triage_pending ==
    [category |-> "Incident",
     severity |-> "Sev2",
     confidence |-> 50,
     next_action |-> "Manual review required",
     needs_approval |-> TRUE,
     approval_action |-> "restart_service"]

(***************************************************************************)
(* workflow.py: the result parser.                                         *)
(***************************************************************************)
FallbackTriage ==
    [category |-> "Incident",
     severity |-> "Sev2",
     confidence |-> 50,
     next_action |-> "Manual review required",
     needs_approval |-> FALSE,
     approval_action |-> "None"]

FallbackPlan ==
    [summary |-> "Plan parsing failed - manual review required",
     steps |-> <<"Review incident manually", "Contact on-call engineer">>,
     customer_message |->
        "We are investigating your issue and will update you shortly.",
     internal_note |-> "Auto-plan failed"]

\* Mutant of FirstOfList: the last element of a list is taken.
LastOfList(r) ==
    IF r.kind = "list" /\ Len(r.items) > 0 THEN r.items[Len(r.items)] ELSE r

\* if isinstance(response, list) and len(response) > 0: response = response[0]
FirstOfList(r) ==
    IF r.kind = "list" /\ Len(r.items) > 0 THEN r.items[1] ELSE r

\* The try block of parse_agent_response_to_triage.
TriageTryBlock(resp) ==
    LET r == FirstOfList(resp) IN
    IF r.kind = "agent_response" THEN TriageValidateJson(r.text)
    ELSE IF r.kind = "TriageResult" THEN Return(r.value)
    ELSE IF r.kind = "dict" THEN
        IF TriageValidates(r.m) THEN Return(TriageOf(r.m))
        ELSE Raise("ValidationError")
    ELSE IF r.kind = "str" THEN TriageValidateJson(r.text)
    ELSE FallThrough

\* The try block of parse_agent_response_to_plan.
PlanTryBlock(resp) ==
    LET r == FirstOfList(resp) IN
    IF r.kind = "agent_response" THEN PlanValidateJson(r.text)
    ELSE IF r.kind = "FinalPlan" THEN Return(r.value)
    ELSE IF r.kind = "dict" THEN
        IF PlanValidates(r.m) THEN Return(PlanOf(r.m))
        ELSE Raise("ValidationError")
    ELSE IF r.kind = "str" THEN PlanValidateJson(r.text)
    ELSE FallThrough

\* Mutant of parse_agent_response_to_triage: no except clause, so a failed
\* validation leaves the function as an exception.
parse_triage_unguarded(resp) ==
    LET b == TriageTryBlock(resp) IN
    IF b.ctl = "return"
    THEN [outcome |-> "returned", value |-> b.value, diagnostic |-> FALSE]
    ELSE IF b.ctl = "raise"
    THEN [outcome |-> "raised", value |-> FallbackTriage, diagnostic |-> FALSE]
    ELSE [outcome |-> "returned", value |-> FallbackTriage,
          diagnostic |-> FALSE]

\* try: ... except Exception as e: print(...); then the fallback instance.
\* diagnostic: whether the except clause printed.
parse_agent_response_to_triage(resp) ==
    LET b == TriageTryBlock(resp) IN
    IF b.ctl = "return"
    THEN [outcome |-> "returned", value |-> b.value, diagnostic |-> FALSE]
    ELSE [outcome |-> "returned", value |-> FallbackTriage,
          diagnostic |-> (b.ctl = "raise")]

\* Mutant of parse_agent_response_to_plan: no except clause.
parse_plan_unguarded(resp) ==
    LET b == PlanTryBlock(resp) IN
    IF b.ctl = "return"
    THEN [outcome |-> "returned", value |-> b.value, diagnostic |-> FALSE]
    ELSE IF b.ctl = "raise"
    THEN [outcome |-> "raised", value |-> FallbackPlan, diagnostic |-> FALSE]
    ELSE [outcome |-> "returned", value |-> FallbackPlan, diagnostic |-> FALSE]

parse_agent_response_to_plan(resp) ==
    LET b == PlanTryBlock(resp) IN
    IF b.ctl = "return"
    THEN [outcome |-> "returned", value |-> b.value, diagnostic |-> FALSE]
    ELSE [outcome |-> "returned", value |-> FallbackPlan,
          diagnostic |-> (b.ctl = "raise")]

(***************************************************************************)
(* Stage outputs the parsers are driven with.                              *)
(***************************************************************************)
Without(m, f) == [g \in DOMAIN m \ {f} |-> m[g]]
With(m, f, v) == [g \in DOMAIN m \cup {f} |-> IF g = f THEN v ELSE m[g]]

TriageDoc(cat, conf, needs) ==
    [category |-> JStr(cat),
     severity |-> JStr("Sev1"),
     confidence |-> JNum(conf),
     next_action |-> JStr("restart"),
     needs_approval |-> JBool(needs)]

BaseTriageDoc == With(TriageDoc("Incident", 90, TRUE), "approval_action",
                      JStr("restart_service"))

ValidTriageDocs ==
    LET plain == {TriageDoc(c, n, b) :
                    c \in {"Incident", "Security"},
                    n \in {ConfidenceMin, 90, ConfidenceMax},
                    b \in BOOLEAN}
    IN plain
       \cup {With(d, "approval_action", JNull) : d \in plain}
       \cup {With(d, "approval_action", JStr("restart_service")) : d \in plain}

PlanDoc(steps) ==
    [summary |-> JStr("Checkout API degraded"),
     steps |-> JList(steps),
     customer_message |-> JStr("We are investigating."),
     internal_note |-> JStr("Likely memory leak.")]

BasePlanDoc ==
    PlanDoc(<<JStr("Check logs"), JStr("Restart pods"), JStr("Monitor")>>)

ValidPlanDocs ==
    {BasePlanDoc, PlanDoc(<<>>), PlanDoc(<<JStr("Check logs")>>)}

\* The stage outputs the parsers are driven with: json documents that
\* validate and that do not, as text, as mappings and as typed instances,
\* plain, in lists and in lists nested in a list.
Responses ==
    LET invalidTriage ==
            {Without(BaseTriageDoc, f) : f \in TriageFields \ {"approval_action"}}
            \cup {With(BaseTriageDoc, "category", JNum(1)),
                  With(BaseTriageDoc, "category", JStr("Outage")),
                  With(BaseTriageDoc, "severity", JNull),
                  With(BaseTriageDoc, "severity", JStr("Sev4")),
                  With(BaseTriageDoc, "confidence", JStr("high")),
                  With(BaseTriageDoc, "confidence", JNum(ConfidenceMax + 1)),
                  With(BaseTriageDoc, "confidence", JNum(ConfidenceMin - 10)),
                  With(BaseTriageDoc, "next_action", JNum(7)),
                  With(BaseTriageDoc, "needs_approval", JList(<<>>)),
                  With(BaseTriageDoc, "approval_action", JNum(1)),
                  With(BaseTriageDoc, "approval_action", JStr("delete_database"))}
        invalidPlan ==
            {Without(BasePlanDoc, f) : f \in PlanFields}
            \cup {With(BasePlanDoc, "summary", JNum(3)),
                  With(BasePlanDoc, "steps", JStr("Check logs")),
                  With(BasePlanDoc, "steps", JList(<<JStr("Check logs"), JNum(2)>>)),
                  With(BasePlanDoc, "internal_note", JNull)}
        docs == ValidTriageDocs \cup invalidTriage \cup ValidPlanDocs
                \cup invalidPlan \cup {<<>>}
        texts == {TextObject(m) : m \in docs} \cup {TextInvalid, TextScalar}
        \* stage outputs that are no list
        plain ==
            {RAgentResponse(t) : t \in texts}
            \cup {RStr(t) : t \in texts}
            \cup {RDict(m) : m \in docs}
            \cup {RTriage(TriageOf(m)) : m \in ValidTriageDocs}
            \cup {RPlan(PlanOf(m)) : m \in ValidPlanDocs}
            \cup {ROther}
        \* what follows the first element of a list-shaped output
        later ==
            {ROther, RDict(BaseTriageDoc), RStr(TextObject(BasePlanDoc)),
             RTriage(FallbackTriage)}
        \* lists nested in a list
        inner ==
            {RList(<<>>), RList(<<RDict(BaseTriageDoc)>>),
             RList(<<RAgentResponse(TextObject(BasePlanDoc))>>),
             RList(<<RPlan(PlanOf(BasePlanDoc)), ROther>>)}
        tails == UNION {[1..n -> later] : n \in 0..(MaxItems - 1)}
    IN plain
       \cup {RList(<<>>)}
       \cup {RList(<<h>> \o t) : h \in plain \cup inner, t \in tails}

\* The memory at rest, in a specification that does not drive it.
MemIdle ==
    /\ mem = [preferred_language |-> "hebrew", last_customer |-> <<>>,
              last_service |-> <<>>]
    /\ request = [items |-> <<>>, single |-> FALSE]
    /\ recorded = FALSE
    /\ lastOp = [op |-> "none"]

\* The middleware at rest.
MwIdle ==
    /\ mwIn = [actx |-> [messages |-> <<>>, result |-> [kind |-> "none"]]]
    /\ mwOut = [level |-> "none", agent |-> [outcome |-> "none"],
                function |-> [outcome |-> "none"]]

\* No pipeline run.
PipeIdle ==
    /\ graph = "none"
    /\ runNo = 0
    /\ pc = "idle"
    /\ incident = [id |-> "none"]
    /\ outbox = <<>>
    /\ triage = [none |-> TRUE]
    /\ plan = [none |-> TRUE]
    /\ stages = <<>>
    /\ log = <<>>
    /\ outputs = <<>>
    /\ failure = [source |-> "none"]

NotParsed == [outcome |-> "none"]

(***************************************************************************)
(* ParserSpec: one stage output, handed to either parser.                  *)
(***************************************************************************)
ParserInit ==
    /\ response \in Responses
    /\ parsed = NotParsed
    /\ MemIdle
    /\ MwIdle
    /\ PipeIdle

ParseTriage ==
    /\ parsed = NotParsed
    /\ parsed' = [shape |-> "TriageResult"]
                 @@ parse_agent_response_to_triage(response)
    /\ UNCHANGED <<response, memVars, mwVars, pipeVars>>

ParsePlan ==
    /\ parsed = NotParsed
    /\ parsed' = [shape |-> "FinalPlan"]
                 @@ parse_agent_response_to_plan(response)
    /\ UNCHANGED <<response, memVars, mwVars, pipeVars>>

ParserNext == ParseTriage \/ ParsePlan

ParserSpec == ParserInit /\ [][ParserNext]_vars

(***************************************************************************)
(* Claims about the result parser.                                         *)
(***************************************************************************)
\* The input itself and, for a list, its elements.
InputItems(resp) ==
    {resp} \cup (IF resp.kind = "list"
                 THEN {resp.items[i] : i \in 1..Len(resp.items)}
                 ELSE {})

\* The TriageResult instances a single value decodes to.
TriageDecodings(r) ==
    IF r.kind \in {"agent_response", "str"} THEN
        IF r.text.json = "object" /\ TriageValidates(r.text.m)
        THEN {TriageOf(r.text.m)} ELSE {}
    ELSE IF r.kind = "dict" THEN
        IF TriageValidates(r.m) THEN {TriageOf(r.m)} ELSE {}
    ELSE IF r.kind = "TriageResult" THEN {r.value}
    ELSE {}

PlanDecodings(r) ==
    IF r.kind \in {"agent_response", "str"} THEN
        IF r.text.json = "object" /\ PlanValidates(r.text.m)
        THEN {PlanOf(r.text.m)} ELSE {}
    ELSE IF r.kind = "dict" THEN
        IF PlanValidates(r.m) THEN {PlanOf(r.m)} ELSE {}
    ELSE IF r.kind = "FinalPlan" THEN {r.value}
    ELSE {}

\* C3: for a stage output of any shape, either parser returns (it never
\* raises) and what it returns is the canonical fallback instance of the
\* requested shape or a fully populated instance decoded from the input.
C3_ParserNeverRaises ==
    parsed # NotParsed =>
        /\ parsed.outcome = "returned"
        /\ parsed.shape = "TriageResult" =>
            \/ parsed.value = FallbackTriage
            \/ /\ IsTriageResult(parsed.value)
               /\ \E r \in InputItems(response) :
                      parsed.value \in TriageDecodings(r)
        /\ parsed.shape = "FinalPlan" =>
            \/ parsed.value = FallbackPlan
            \/ /\ IsFinalPlan(parsed.value)
               /\ \E r \in InputItems(response) :
                      parsed.value \in PlanDecodings(r)

\* C3 witness: a mapping with a required field missing was parsed and the
\* fallback came back, with a diagnostic.
C3_Witness ==
    /\ response = RDict(Without(BaseTriageDoc, "severity"))
    /\ parsed # NotParsed
    /\ parsed.shape = "TriageResult"
    /\ parsed.outcome = "returned"
    /\ parsed.diagnostic
    /\ parsed.value = FallbackTriage

(***************************************************************************)
(* memory.py: OpsMemory. A text is a sequence of one-character strings; a  *)
(* string the code builds is a sequence of pieces (literals and            *)
(* characters). None is written as the empty sequence: a value the         *)
(* patterns store is never empty.                                          *)
(***************************************************************************)
None == <<>>

\* [A-Za-z0-9_-]
TokenChars ==
    {"a", "b", "c", "d", "e", "f", "g", "h", "i", "j", "k", "l", "m", "n",
     "o", "p", "q", "r", "s", "t", "u", "v", "w", "x", "y", "z",
     "A", "B", "C", "D", "E", "F", "G", "H", "I", "J", "K", "L", "M", "N",
     "O", "P", "Q", "R", "S", "T", "U", "V", "W", "X", "Y", "Z",
     "0", "1", "2", "3", "4", "5", "6", "7", "8", "9", "_", "-"}
\* [:\s]
SepChars == {":", " ", "\t", "\n", "\r"}

\* The last index of the longest run of characters of class cls that starts
\* at index j (j - 1 when text[j] is not in cls): a greedy +.
RunEnd(text, j, cls) ==
    CHOOSE e \in (j - 1)..Len(text) :
        /\ \A k \in j..e : text[k] \in cls
        /\ e = Len(text) \/ text[e + 1] \notin cls

\* Whether [Xx]rest[:\s]+([A-Za-z0-9_-]+) matches at index i.
MatchesAt(text, i, first, rest) ==
    /\ text[i] \in first
    /\ i + Len(rest) <= Len(text)
    /\ \A k \in 1..Len(rest) : text[i + k] = rest[k]
    /\ LET s == RunEnd(text, i + Len(rest) + 1, SepChars) IN
        /\ s >= i + Len(rest) + 1
        /\ RunEnd(text, s + 1, TokenChars) >= s + 1

\* group(1) of a match at index i
GroupAt(text, i, rest) ==
    LET s == RunEnd(text, i + Len(rest) + 1, SepChars) IN
    SubSeq(text, s + 1, RunEnd(text, s + 1, TokenChars))

\* Mutant of Search: the last match of the text, not the first.
SearchLast(text, first, rest) ==
    LET starts == {i \in 1..Len(text) : MatchesAt(text, i, first, rest)} IN
    IF starts = {} THEN [found |-> FALSE, group |-> None]
    ELSE [found |-> TRUE,
          group |-> GroupAt(text, CHOOSE i \in starts :
                                    \A j \in starts : j <= i, rest)]

\* re.search(r'[Xx]rest[:\s]+([A-Za-z0-9_-]+)', text): the leftmost match.
Search(text, first, rest) ==
    LET starts == {i \in 1..Len(text) : MatchesAt(text, i, first, rest)} IN
    IF starts = {} THEN [found |-> FALSE, group |-> None]
    ELSE [found |-> TRUE,
          group |-> GroupAt(text, CHOOSE i \in starts :
                                    \A j \in starts : i <= j, rest)]

CustomerRest == <<"u", "s", "t", "o", "m", "e", "r">>
ServiceRest == <<"e", "r", "v", "i", "c", "e">>

\* Mutant of extract_context: a pattern that does not match stores None.
extract_context_resetting(m, text) ==
    LET customer_match == Search(text, {"C", "c"}, CustomerRest)
        service_match == Search(text, {"S", "s"}, ServiceRest)
    IN [m EXCEPT
            !.last_customer = IF customer_match.found
                              THEN customer_match.group ELSE None,
            !.last_service = IF service_match.found
                             THEN service_match.group ELSE None]

\* OpsMemory._extract_context
extract_context(m, text) ==
    LET customer_match == Search(text, {"C", "c"}, CustomerRest)
        service_match == Search(text, {"S", "s"}, ServiceRest)
        m1 == IF customer_match.found
              THEN [m EXCEPT !.last_customer = customer_match.group]
              ELSE m
    IN IF service_match.found
       THEN [m1 EXCEPT !.last_service = service_match.group]
       ELSE m1

\* OpsMemory.__init__
FreshMemory ==
    [preferred_language |-> "hebrew", last_customer |-> None,
     last_service |-> None]

\* str.lower() on the language names of the model
Lower(l) ==
    CASE l = "Hebrew" -> "hebrew"
      [] l = "English" -> "english"
      [] OTHER -> l

HebrewDirective ==
    <<"Respond in Hebrew when addressing the customer. Keep technical terms in English.">>
LanguageDirective(l) == <<"Respond in ", l, ". Keep answers concise.">>
ServiceNote(t) ==
    <<"Context: Previous interaction involved service '">> \o t \o <<"'.">>
CustomerNote(t) == <<"Context: Previous customer was '">> \o t \o <<"'.">>

\* " ".join(notes)
RECURSIVE Join(_)
Join(notes) ==
    IF Len(notes) = 0 THEN <<>>
    ELSE IF Len(notes) = 1 THEN notes[1]
    ELSE notes[1] \o <<" ">> \o Join(Tail(notes))

\* The instructions list OpsMemory.invoking builds.
InstructionList(m) ==
    (IF Lower(m.preferred_language) = "hebrew"
     THEN <<HebrewDirective>>
     ELSE <<LanguageDirective(m.preferred_language)>>)
    \o (IF m.last_service # None THEN <<ServiceNote(m.last_service)>> ELSE <<>>)
    \o (IF m.last_customer # None THEN <<CustomerNote(m.last_customer)>> ELSE <<>>)

\* Mutant of invoking: the customer note is left out.
invoking_without_customer(m) ==
    [instructions |->
        Join((IF Lower(m.preferred_language) = "hebrew"
              THEN <<HebrewDirective>>
              ELSE <<LanguageDirective(m.preferred_language)>>)
             \o (IF m.last_service # None
                 THEN <<ServiceNote(m.last_service)>> ELSE <<>>))]

\* OpsMemory.invoking: Context(instructions=" ".join(...) if ... else None)
invoking(m) ==
    LET instructions == InstructionList(m) IN
    [instructions |->
        IF Len(instructions) > 0 THEN Join(instructions) ELSE None]

\* Chat messages: a role and contents; the contents of the model are texts.
TextContent(chars) == [type |-> "text", text |-> chars]
ChatMessage(role, contents) == [role |-> role, contents |-> contents]

\* for content in msg.contents: if hasattr(content, 'text'):
\*     text += content.text + " "
RECURSIVE MessageText(_)
MessageText(contents) ==
    IF Len(contents) = 0 THEN <<>>
    ELSE (IF Head(contents).type = "text"
          THEN Head(contents).text \o <<" ">>
          ELSE <<>>)
         \o MessageText(Tail(contents))

\* The loop of OpsMemory.invoked over messages_list.
RECURSIVE ScanMessages(_, _)
ScanMessages(m, msgs) ==
    IF Len(msgs) = 0 THEN m
    ELSE ScanMessages(
            IF Head(msgs).role = "user"
            THEN extract_context(m, MessageText(Head(msgs).contents))
            ELSE m,
            Tail(msgs))

\* request_messages: one ChatMessage or a sequence of them.
OneMessage(msg) == [kind |-> "message", msg |-> msg]
MessageList(msgs) == [kind |-> "sequence", msgs |-> msgs]

\* Mutant of invoked: the messages of every role are scanned.
invoked_any_role(m, request_messages, response_messages, invoke_exception) ==
    LET messages_list == IF request_messages.kind = "message"
                         THEN <<request_messages.msg>>
                         ELSE request_messages.msgs
    IN ScanMessages(m, [i \in 1..Len(messages_list) |->
                            [messages_list[i] EXCEPT !.role = "user"]])

\* OpsMemory.invoked
invoked(m, request_messages, response_messages, invoke_exception) ==
    LET messages_list == IF request_messages.kind = "message"
                         THEN <<request_messages.msg>>
                         ELSE request_messages.msgs
    IN ScanMessages(m, messages_list)

\* Mutant of set_language: the language is stored in lower case.
set_language_lowercased(m, language) ==
    [m EXCEPT !.preferred_language = Lower(language)]

\* OpsMemory.set_language
set_language(m, language) == [m EXCEPT !.preferred_language = language]

\* OpsMemory.get_state
get_state(m) ==
    [preferred_language |-> m.preferred_language,
     last_customer |-> m.last_customer,
     last_service |-> m.last_service]

\* Mutant of clear: the memory is put back as __init__ leaves it.
clear_all(m) ==
    [preferred_language |-> "hebrew", last_customer |-> None,
     last_service |-> None]

\* OpsMemory.clear
clear(m) == [m EXCEPT !.last_customer = None, !.last_service = None]

\* OpsMemory.serialize: json.dumps(self.get_state())
serialize(m) == [json |-> "object", m |-> get_state(m)]

(***************************************************************************)
(* Requests the memory is driven with: each content of a message is one    *)
(* phrase; an item starts a message of a role or adds a content to the     *)
(* message before it.                                                      *)
(***************************************************************************)
Acme1 == <<"a", "c", "m", "e", "-", "1">>
Zed == <<"z", "e", "d">>
BillingApi == <<"b", "i", "l", "l", "i", "n", "g", "-", "a", "p", "i">>
Db2 == <<"d", "b", "_", "2">>

Phrases ==
    {[kind |-> "customer", token |-> Acme1,
      chars |-> <<"C", "u", "s", "t", "o", "m", "e", "r", ":", " ">> \o Acme1],
     [kind |-> "customer", token |-> Zed,
      chars |-> <<"c", "u", "s", "t", "o", "m", "e", "r", " ">> \o Zed],
     [kind |-> "service", token |-> BillingApi,
      chars |-> <<"S", "e", "r", "v", "i", "c", "e", ":", " ">> \o BillingApi],
     [kind |-> "service", token |-> Db2,
      chars |-> <<"s", "e", "r", "v", "i", "c", "e", ":", "\t">> \o Db2],
     [kind |-> "none", token |-> None,
      chars |-> <<"n", "/", "a", ".">>]}

\* A content of a request: a phrase, opening a user message, opening an
\* assistant message, or added to the message before it.
Items == [phrase : Phrases, start : {"user", "assistant", "more"}]

\* most contents in one request
MaxContents == 3

ItemLists ==
    {l \in UNION {[1..n -> Items] : n \in 0..MaxContents} :
        Len(l) > 0 => l[1].start # "more"}

\* The messages of an item list, as roles and phrases.
RECURSIVE GroupItems(_, _)
GroupItems(items, acc) ==
    IF Len(items) = 0 THEN acc
    ELSE LET it == Head(items) IN
         IF it.start = "more"
         THEN GroupItems(Tail(items),
                         [acc EXCEPT ![Len(acc)].phrases = Append(@, it.phrase)])
         ELSE GroupItems(Tail(items),
                         Append(acc, [role |-> it.start,
                                      phrases |-> <<it.phrase>>]))

\* The ChatMessage objects of an item list.
MessagesOf(items) ==
    LET g == GroupItems(items, <<>>) IN
    [i \in 1..Len(g) |->
        ChatMessage(g[i].role,
                    [j \in 1..Len(g[i].phrases) |->
                        TextContent(g[i].phrases[j].chars)])]

\* A request is an item list, passed as a sequence of messages or, when it
\* is one message, as that ChatMessage itself.
Requests ==
    {[items |-> l, single |-> FALSE] : l \in ItemLists}
    \cup {[items |-> l, single |-> TRUE] :
            l \in {k \in ItemLists : Len(GroupItems(k, <<>>)) = 1}}

RequestMessages(req) ==
    LET msgs == MessagesOf(req.items) IN
    IF req.single /\ Len(msgs) = 1 THEN OneMessage(msgs[1])
    ELSE MessageList(msgs)

\* An earlier stage's request, recorded before the request under study.
SeedRequest ==
    [items |-> <<[phrase |-> [kind |-> "customer", token |-> <<"o", "l", "d">>,
                              chars |-> <<"c", "u", "s", "t", "o", "m", "e",
                                          "r", ":", "o", "l", "d", ",", " ",
                                          "s", "e", "r", "v", "i", "c", "e",
                                          " ", "s", "v", "c", "0">>],
                  start |-> "user"]>>,
     single |-> TRUE]

NoOp == [op |-> "none"]

(***************************************************************************)
(* RecordSpec: one request, recorded on a fresh memory or after an earlier *)
(* request, with prepare calls around it.                                  *)
(***************************************************************************)
ParserIdle ==
    /\ response = ROther
    /\ parsed = NotParsed

RecordInit ==
    /\ mem = FreshMemory
    /\ request \in Requests
    /\ recorded = FALSE
    /\ lastOp = NoOp
    /\ ParserIdle
    /\ MwIdle
    /\ PipeIdle

\* record (invoked) of an earlier request, before anything else
RecordEarlier ==
    /\ lastOp = NoOp
    /\ mem' = invoked(mem, RequestMessages(SeedRequest), None, None)
    /\ recorded' = TRUE
    /\ lastOp' = [op |-> "invoked", main |-> FALSE, before |-> mem,
                  prev |-> lastOp.op]
    /\ UNCHANGED <<request, parserVars, mwVars, pipeVars>>

\* record (invoked) of the request under study
Record ==
    /\ mem' = invoked(mem, RequestMessages(request), None, None)
    /\ recorded' = TRUE
    /\ lastOp' = [op |-> "invoked", main |-> TRUE, before |-> mem,
                  prev |-> lastOp.op]
    /\ UNCHANGED <<request, parserVars, mwVars, pipeVars>>

\* prepare (invoking)
Prepare ==
    /\ lastOp' = [op |-> "invoking", main |-> FALSE, before |-> mem,
                  prev |-> IF lastOp.op = "invoked" /\ lastOp.main
                           THEN "invoked_main" ELSE lastOp.op,
                  ret |-> invoking(mem)]
    /\ UNCHANGED <<mem, request, recorded, parserVars, mwVars, pipeVars>>

RecordNext == RecordEarlier \/ Record \/ Prepare

RecordSpec == RecordInit /\ [][RecordNext]_vars

(***************************************************************************)
(* Claims about prepare and record.                                        *)
(***************************************************************************)
\* The index of the item that starts the message item i belongs to.
MessageStart(items, i) ==
    CHOOSE j \in 1..i :
        /\ items[j].start # "more"
        /\ \A k \in (j + 1)..i : items[k].start = "more"

\* The items of user messages that carry a marker of a kind.
Markers(items, kind) ==
    {i \in 1..Len(items) :
        /\ items[i].phrase.kind = kind
        /\ items[MessageStart(items, i)].start = "user"}

MinOf(S) == CHOOSE x \in S : \A y \in S : x <= y
MaxOf(S) == CHOOSE x \in S : \A y \in S : y <= x

\* The token of the first marker of a kind in the whole request.
FirstTokenOfCall(items, kind) ==
    items[MinOf(Markers(items, kind))].phrase.token

\* The token of the first marker of a kind in the last user message that
\* has one.
FirstTokenOfLastMessage(items, kind) ==
    LET ms == Markers(items, kind)
        last == MaxOf({MessageStart(items, i) : i \in ms})
    IN items[MinOf({i \in ms : MessageStart(items, i) = last})].phrase.token

\* A request whose only markers are 'Customer: acme-1' and
\* 'Service: billing-api', both in one user message.
C9_Request(items) ==
    LET cs == Markers(items, "customer")
        ss == Markers(items, "service")
    IN /\ \A i \in cs : items[i].phrase.token = Acme1
       /\ \A i \in ss : items[i].phrase.token = BillingApi
       /\ \E i \in cs, j \in ss : MessageStart(items, i) = MessageStart(items, j)

\* C9: before any record call prepare returns only the language directive;
\* after record has seen a user message with 'Customer: acme-1' and
\* 'Service: billing-api', the next prepare returns the directive, a note
\* with the service token and a note with the customer token, verbatim.
C9_PrepareAfterRecord ==
    /\ (lastOp.op = "invoking" /\ ~recorded) =>
        lastOp.ret.instructions =
            <<"Respond in Hebrew when addressing the customer. Keep technical terms in English.">>
    /\ (lastOp.op = "invoking" /\ lastOp.prev = "invoked_main"
            /\ C9_Request(request.items)) =>
        lastOp.ret.instructions =
            <<"Respond in Hebrew when addressing the customer. Keep technical terms in English.",
              " ", "Context: Previous interaction involved service '",
              "b", "i", "l", "l", "i", "n", "g", "-", "a", "p", "i", "'.",
              " ", "Context: Previous customer was '",
              "a", "c", "m", "e", "-", "1", "'.">>

\* C9 witness: prepare right after a record of such a request returns the
\* directive and the two notes.
C9_Witness ==
    /\ lastOp.op = "invoking"
    /\ lastOp.prev = "invoked_main"
    /\ C9_Request(request.items)
    /\ mem.last_customer = Acme1
    /\ mem.last_service = BillingApi
    /\ Len(lastOp.ret.instructions) > 1

\* C10 as claimed: after one record call, last_customer and last_service
\* are the tokens of the first marker in the call's user messages.
C10_FirstMatchOfCall ==
    (lastOp.op = "invoked" /\ lastOp.main) =>
        /\ Markers(request.items, "customer") # {} =>
            mem.last_customer = FirstTokenOfCall(request.items, "customer")
        /\ Markers(request.items, "service") # {} =>
            mem.last_service = FirstTokenOfCall(request.items, "service")

\* C10 amended: after one record call, last_customer and last_service are
\* the tokens of the first marker within the last user message that has a
\* marker of that kind.
C10_FirstMatchOfLastMessage ==
    (lastOp.op = "invoked" /\ lastOp.main) =>
        /\ Markers(request.items, "customer") # {} =>
            mem.last_customer =
                FirstTokenOfLastMessage(request.items, "customer")
        /\ Markers(request.items, "service") # {} =>
            mem.last_service =
                FirstTokenOfLastMessage(request.items, "service")

\* C10 witness: a record call on a request with two user messages, the
\* last one holding two customer markers; the first of these is stored.
C10_Witness ==
    /\ lastOp.op = "invoked" /\ lastOp.main
    /\ Len(request.items) = 3
    /\ request.items[1].start = "user" /\ request.items[1].phrase.token = Zed
    /\ request.items[2].start = "user" /\ request.items[2].phrase.token = Acme1
    /\ request.items[3].start = "more" /\ request.items[3].phrase.token = Zed
    /\ mem.last_customer = Acme1

(***************************************************************************)
(* middleware.py: the logging middleware. A wrapped step (next) is given   *)
(* by what it does: the context as it leaves it, and the failure it raises *)
(* if any. A failure has a type, the class it derives from (Exception, or  *)
(* BaseException alone, as asyncio.CancelledError and KeyboardInterrupt    *)
(* do) and a message.                                                      *)
(***************************************************************************)
NoError == [type |-> "none", base |-> "none", message |-> ""]
Failures ==
    {[type |-> "RuntimeError", base |-> "Exception", message |-> "boom"],
     [type |-> "TimeoutError", base |-> "Exception", message |-> ""],
     [type |-> "CancelledError", base |-> "BaseException", message |-> ""]}

\* longest result rendering logged in full
ResultCap == 200

NoResult == [kind |-> "none"]
StrResult(chars) == [kind |-> "str", chars |-> chars]

\* str(context.result)
StrOf(result) ==
    IF result.kind = "none" THEN <<"N", "o", "n", "e">> ELSE result.chars

\* Mutant of Truncate: the rendering is cut at the cap and nothing is added.
truncate_without_ellipsis(result_str) ==
    IF Len(result_str) > ResultCap
    THEN SubSeq(result_str, 1, ResultCap)
    ELSE result_str

\* if len(result_str) > 200: result_str = result_str[:200] + "..."
Truncate(result_str) ==
    IF Len(result_str) > ResultCap
    THEN SubSeq(result_str, 1, ResultCap) \o <<".", ".", ".">>
    ELSE result_str

WrapperResult(entries, error, passed, after, calls) ==
    [log |-> entries,
     outcome |-> IF error = NoError THEN "returned" ELSE "raised",
     error |-> error,
     passed |-> passed,
     context |-> after,
     calls |-> calls]

\* Mutant of logging_agent_middleware: the except clause logs and returns,
\* without raise.
agent_middleware_swallowing(context, step) ==
    LET start == [marker |-> "agent_start", messages |-> Len(context.messages)]
    IN IF step.error = NoError
       THEN WrapperResult(<<start, [marker |-> "agent_finished"]>>,
                          NoError, context, step.after, 1)
       ELSE IF step.error.base = "Exception"
       THEN WrapperResult(<<start, [marker |-> "agent_error",
                                    error |-> step.error.message]>>,
                          NoError, context, step.after, 1)
       ELSE WrapperResult(<<start>>, step.error, context, step.after, 1)

\* logging_agent_middleware(context, next); step is what next(context) does.
logging_agent_middleware(context, step) ==
    LET messages_count == Len(context.messages)
        start == [marker |-> "agent_start", messages |-> messages_count]
    IN IF step.error = NoError
       THEN WrapperResult(<<start, [marker |-> "agent_finished"]>>,
                          NoError, context, step.after, 1)
       ELSE IF step.error.base = "Exception"
       THEN WrapperResult(<<start, [marker |-> "agent_error",
                                    error |-> step.error.message]>>,
                          step.error, context, step.after, 1)
       ELSE WrapperResult(<<start>>, step.error, context, step.after, 1)

\* Mutant of logging_function_middleware: the truncated rendering is written
\* back to context.result.
function_middleware_truncating_result(context, step) ==
    LET func_name == context.function
        call == [marker |-> "tool_call", name |-> func_name,
                 args |-> context.arguments]
    IN IF step.error = NoError
       THEN WrapperResult(
                <<call, [marker |-> "tool_result", name |-> func_name,
                         result |-> Truncate(StrOf(step.after.result))]>>,
                NoError, context,
                [step.after EXCEPT
                    !.result = StrResult(Truncate(StrOf(step.after.result)))],
                1)
       ELSE IF step.error.base = "Exception"
       THEN WrapperResult(<<call, [marker |-> "tool_error", name |-> func_name,
                                   error |-> step.error.message]>>,
                          step.error, context, step.after, 1)
       ELSE WrapperResult(<<call>>, step.error, context, step.after, 1)

\* logging_function_middleware(context, next)
logging_function_middleware(context, step) ==
    LET func_name == context.function
        args == context.arguments
        call == [marker |-> "tool_call", name |-> func_name, args |-> args]
    IN IF step.error = NoError
       THEN WrapperResult(
                <<call, [marker |-> "tool_result", name |-> func_name,
                         result |-> Truncate(StrOf(step.after.result))]>>,
                NoError, context, step.after, 1)
       ELSE IF step.error.base = "Exception"
       THEN WrapperResult(<<call, [marker |-> "tool_error", name |-> func_name,
                                   error |-> step.error.message]>>,
                          step.error, context, step.after, 1)
       ELSE WrapperResult(<<call>>, step.error, context, step.after, 1)

\* get_middleware_list: the agent-level wrapper, then the function-level one
get_middleware_list == <<"logging_agent_middleware", "logging_function_middleware">>

(***************************************************************************)
(* Invocations the wrappers are driven with.                               *)
(***************************************************************************)
Chars(n) == [i \in 1..n |-> "x"]

\* A middleware invocation: the contexts, what the wrapped agent run does to
\* its context (it sets the result and may add a message, or raises) and what
\* the wrapped tool call does (it sets the result, or raises).
MwInputs ==
    LET results ==
            {NoResult, StrResult(Chars(ResultCap - 1)),
             StrResult(Chars(ResultCap)), StrResult(Chars(ResultCap + 1))}
        agentContexts ==
            {[messages |-> ms, result |-> NoResult] :
                ms \in {<<>>, <<"m1">>, <<"m1", "m2">>}}
        functionContexts ==
            {[function |-> f, arguments |-> "service=checkout-api",
              result |-> NoResult] :
                f \in {"fetch_service_health", "lookup_runbook"}}
        agentSteps(context) ==
            {[error |-> e, after |-> c] :
                e \in Failures \cup {NoError},
                c \in {[context EXCEPT !.result = StrResult(<<"o", "k">>)],
                       [messages |-> Append(context.messages, "reply"),
                        result |-> StrResult(<<"o", "k">>)]}}
        functionSteps(context) ==
            {[error |-> NoError, after |-> [context EXCEPT !.result = r]] :
                r \in results}
            \cup {[error |-> e, after |-> context] : e \in Failures}
    IN UNION {{[actx |-> a, astep |-> s, fctx |-> f, fstep |-> t] :
                    s \in agentSteps(a), t \in functionSteps(f)} :
                a \in agentContexts, f \in functionContexts}

NoWrapper == [outcome |-> "none"]
NoInvocation == [level |-> "none", agent |-> NoWrapper, function |-> NoWrapper]

\* The agent run of a chained invocation: the tool call goes through the
\* function-level wrapper; a tool failure that is an Exception becomes the
\* tool's result for the collaborator, any other failure ends the agent run.
ChainedAgentStep(in, inner) ==
    IF inner.outcome = "raised" /\ inner.error.base # "Exception"
    THEN [error |-> inner.error, after |-> in.actx]
    ELSE in.astep

(***************************************************************************)
(* MiddlewareSpec: one invocation of a wrapper, or of the agent-level      *)
(* wrapper around an agent run that calls a tool through the               *)
(* function-level wrapper.                                                 *)
(***************************************************************************)
MiddlewareInit ==
    /\ mwIn \in MwInputs
    /\ mwOut = NoInvocation
    /\ ParserIdle
    /\ MemIdle
    /\ PipeIdle

InvokeAgentMiddleware ==
    /\ mwOut = NoInvocation
    /\ mwOut' = [level |-> "agent",
                 agent |-> logging_agent_middleware(mwIn.actx, mwIn.astep),
                 function |-> NoWrapper]
    /\ UNCHANGED <<mwIn, parserVars, memVars, pipeVars>>

InvokeFunctionMiddleware ==
    /\ mwOut = NoInvocation
    /\ mwOut' = [level |-> "function",
                 agent |-> NoWrapper,
                 function |->
                    logging_function_middleware(mwIn.fctx, mwIn.fstep)]
    /\ UNCHANGED <<mwIn, parserVars, memVars, pipeVars>>

InvokeChained ==
    /\ mwOut = NoInvocation
    /\ LET inner == logging_function_middleware(mwIn.fctx, mwIn.fstep)
           outer == logging_agent_middleware(
                        mwIn.actx, ChainedAgentStep(mwIn, inner))
       IN mwOut' = [level |-> "chained",
                    agent |-> [outer EXCEPT
                                !.log = <<outer.log[1]>> \o inner.log
                                        \o Tail(outer.log)],
                    function |-> inner]
    /\ UNCHANGED <<mwIn, parserVars, memVars, pipeVars>>

MiddlewareNext ==
    InvokeAgentMiddleware \/ InvokeFunctionMiddleware \/ InvokeChained

MiddlewareSpec == MiddlewareInit /\ [][MiddlewareNext]_vars

(***************************************************************************)
(* Claims about the logging middleware.                                    *)
(***************************************************************************)
\* The wrapper invocations of the current state, each with the context it
\* received and the step it wrapped.
Invocations ==
    (IF mwOut.agent # NoWrapper
     THEN {[wrapper |-> "agent", out |-> mwOut.agent, context |-> mwIn.actx,
            step |-> IF mwOut.level = "chained"
                     THEN ChainedAgentStep(mwIn, mwOut.function)
                     ELSE mwIn.astep]}
     ELSE {})
    \cup
    (IF mwOut.function # NoWrapper
     THEN {[wrapper |-> "function", out |-> mwOut.function,
            context |-> mwIn.fctx, step |-> mwIn.fstep]}
     ELSE {})

ErrorMarker(w) == IF w = "agent" THEN "agent_error" ELSE "tool_error"
DoneMarker(w) == IF w = "agent" THEN "agent_finished" ELSE "tool_result"

CountMarker(entries, marker) ==
    Cardinality({i \in 1..Len(entries) : entries[i].marker = marker})

C7_PurelyObservational ==
    \A v \in Invocations :
        /\ v.out.calls = 1
        /\ v.out.passed = v.context
        /\ v.step.error = NoError =>
            /\ v.out.outcome = "returned"
            /\ v.out.context = v.step.after

\* C7 witness: chained wrappers, a tool result one character over the cap:
\* the log holds the truncated rendering, the context the whole result.
C7_Witness ==
    /\ mwOut.level = "chained"
    /\ mwOut.agent.outcome = "returned"
    /\ mwOut.function.outcome = "returned"
    /\ mwOut.function.context.result.kind = "str"
    /\ Len(mwOut.function.context.result.chars) = ResultCap + 1
    /\ \E i \in 1..Len(mwOut.agent.log) :
            /\ mwOut.agent.log[i].marker = "tool_result"
            /\ mwOut.agent.log[i].result # mwOut.function.context.result.chars

(***************************************************************************)
(* workflow.py: the executors and the workflow.                            *)
(*                                                                         *)
(* build_workflow wires triage_incident -> writer_executor ->              *)
(* format_output (graph "simplified"). The module also defines the         *)
(* executors of the two-stage chain, to_classifier_request ->              *)
(* classifier_executor -> process_triage_and_enrich -> writer_executor ->  *)
(* format_output (graph "staged"), over the classifier agent that          *)
(* build_agents builds; both chains are modelled, each executor from its   *)
(* own code.                                                               *)
(***************************************************************************)

\* most pipeline runs of one process
MaxRuns == 2
\* most tool calls the collaborator asks for in one delegation
MaxToolCalls == 1

Incidents ==
    {[id |-> "INC-1",
      service |-> <<"c", "h", "e", "c", "k", "o", "u", "t", "-", "a", "p", "i">>,
      customer |-> <<"a", "c", "m", "e">>],
     [id |-> "INC-2", service |-> BillingApi, customer |-> Acme1]}

UserPrompt(chars) == <<ChatMessage("user", <<TextContent(chars)>>)>>

\* The prompts, as their text: "#" stands for text that holds no customer or
\* service marker (the fixed wording between the markers, the incident's id,
\* title and description, the triage fields, the enrichment texts).

\* The prompt of to_classifier_request:
\* "...Service: {incident.service}\nCustomer: {incident.customer}\n..."
ClassifierPrompt(inc) ==
    <<"#", "\n", "S", "e", "r", "v", "i", "c", "e", ":", " ">> \o inc.service
    \o <<"\n", "C", "u", "s", "t", "o", "m", "e", "r", ":", " ">> \o inc.customer
    \o <<"\n", "#">>

\* The prompt of triage_incident: "...- Service: {incident.service}\n
\* - Customer: {incident.customer}\n...### Service Health\n...to send to the
\* customer (empathetic..."
CombinedPrompt(inc) ==
    <<"#", "\n", "-", " ", "S", "e", "r", "v", "i", "c", "e", ":", " ">>
    \o inc.service
    \o <<"\n", "-", " ", "C", "u", "s", "t", "o", "m", "e", "r", ":", " ">>
    \o inc.customer
    \o <<"\n", "#", "#", " ", "S", "e", "r", "v", "i", "c", "e", " ",
         "H", "e", "a", "l", "t", "h", "\n", "#",
         "t", "o", " ", "t", "h", "e", " ", "c", "u", "s", "t", "o", "m", "e", "r",
         " ", "(", "#">>

\* The prompt of process_triage_and_enrich: "...Service Health:
\* {service_health}...message to the customer\n- internal_note: ..."
WriterPrompt ==
    <<"#", "\n", "S", "e", "r", "v", "i", "c", "e", " ",
      "H", "e", "a", "l", "t", "h", ":", " ", "#",
      "t", "o", " ", "t", "h", "e", " ", "c", "u", "s", "t", "o", "m", "e", "r",
      "\n", "-", " ", "#">>

\* The three enrichment lookups, in the order called; failAt is the lookup
\* that raises (0: none).
LookupNames == <<"fetch_service_health", "lookup_runbook", "search_known_issues">>

Enrich(service, failAt) ==
    [i \in 1..(IF failAt = 0 THEN Len(LookupNames) ELSE failAt) |->
        [marker |-> "lookup", name |-> LookupNames[i], service |-> service,
         raised |-> (i = failAt)]]

NoTriage == [none |-> TRUE]
NoPlan == [none |-> TRUE]
NoFailure == [source |-> "none"]

(***************************************************************************)
(* format_output: the report, as its lines.                                *)
(***************************************************************************)
Line(t) == [kind |-> "text", text |-> t]
Rule60 == Line("= x 60")
Rule40 == Line("- x 40")

\* Mutant of Render: enumerate(plan.steps) counts from 0.
render_numbered_from_zero(p) ==
    <<Rule60, Line("OPSCOPILOT INCIDENT RESPONSE"), Rule60, Line(""),
      Rule40, Line("PLAN"), Rule40,
      [kind |-> "summary", text |-> p.summary],
      Line(""), Line("Steps:")>>
    \o [i \in 1..Len(p.steps) |->
            [kind |-> "step", number |-> i - 1, text |-> p.steps[i]]]
    \o <<Line(""), Rule40, Line("CUSTOMER MESSAGE"), Rule40,
         Line(p.customer_message),
         Line(""), Rule40, Line("INTERNAL NOTE"), Rule40,
         Line(p.internal_note),
         Line(""), Rule60, Line("END OF OPSCOPILOT RESPONSE"), Rule60>>

\* for i, step in enumerate(plan.steps, 1): f"  {i}. {step}"
Render(p) ==
    <<Rule60, Line("OPSCOPILOT INCIDENT RESPONSE"), Rule60, Line(""),
      Rule40, Line("PLAN"), Rule40,
      [kind |-> "summary", text |-> p.summary],
      Line(""), Line("Steps:")>>
    \o [i \in 1..Len(p.steps) |->
            [kind |-> "step", number |-> i, text |-> p.steps[i]]]
    \o <<Line(""), Rule40, Line("CUSTOMER MESSAGE"), Rule40,
         Line(p.customer_message),
         Line(""), Rule40, Line("INTERNAL NOTE"), Rule40,
         Line(p.internal_note),
         Line(""), Rule60, Line("END OF OPSCOPILOT RESPONSE"), Rule60>>

(***************************************************************************)
(* The agents (agents.py): what the collaborator may answer, and the tool  *)
(* calls it may ask for.                                                   *)
(***************************************************************************)
ClassifierOutputs ==
    {TextObject(BaseTriageDoc), TextObject(TriageDoc("Incident", 70, FALSE)),
     TextInvalid, TextObject(Without(BaseTriageDoc, "severity"))}

WriterOutputs ==
    {TextObject(BasePlanDoc), TextObject(PlanDoc(<<>>)), TextInvalid,
     TextObject(Without(BasePlanDoc, "steps"))}

ToolContext ==
    [function |-> "fetch_service_health", arguments |-> "service=checkout-api",
     result |-> NoResult]

\* The tool calls of one delegation, each by what the wrapped call does: a
\* short result, a result longer than the cap, or a failure. A call that
\* ends the agent run (a failure outside Exception) is the last one.
ToolCallLists ==
    LET steps ==
            {[error |-> NoError,
              after |-> [ToolContext EXCEPT !.result = StrResult(<<"o", "k">>)]],
             [error |-> NoError,
              after |-> [ToolContext EXCEPT
                            !.result = StrResult(Chars(ResultCap + 1))]]}
            \cup {[error |-> e, after |-> ToolContext] :
                    e \in {f \in Failures : f.type # "TimeoutError"}}
    IN {l \in UNION {[1..n -> steps] : n \in 0..MaxToolCalls} :
            \A i \in 1..Len(l) :
                (l[i].error # NoError /\ l[i].error.base # "Exception")
                    => i = Len(l)}

RECURSIVE ToolLog(_)
ToolLog(calls) ==
    IF Len(calls) = 0 THEN <<>>
    ELSE logging_function_middleware(ToolContext, Head(calls)).log
         \o ToolLog(Tail(calls))

\* The failure that ends the agent run from within a tool call, if any.
ToolAbort(calls) ==
    IF Len(calls) > 0 /\ calls[Len(calls)].error # NoError
       /\ calls[Len(calls)].error.base # "Exception"
    THEN calls[Len(calls)].error
    ELSE NoError

\* Mutant of AgentRun: an agent built without context_providers; the
\* collaborator is called with no prepare before and no record after.
agent_run_without_memory(m, agent, messages, answer, calls, recordOnFailure) ==
    LET error == IF ToolAbort(calls) # NoError THEN ToolAbort(calls) ELSE answer
    IN [error |-> error,
        events |-> <<[marker |-> "delegate", agent |-> agent, raised |-> error]>>
                   \o ToolLog(calls),
        mem |-> m]

\* ChatAgent.run under an agent built with context_providers=[get_ops_memory()]
\* and, for the writer, tools: prepare, the collaborator call with its tool
\* calls, then record. answer is the collaborator's own failure (NoError when
\* it answers); the "delegate" entry notes how the call ended. A tool's
\* Exception goes back to the collaborator as the tool's result. After a
\* failure the framework may or may not call record.
AgentRun(m, agent, messages, answer, calls, recordOnFailure) ==
    LET error == IF ToolAbort(calls) # NoError THEN ToolAbort(calls) ELSE answer
        records == error = NoError \/ recordOnFailure
    IN [error |-> error,
        events |->
            <<[marker |-> "prepare", agent |-> agent,
               instructions |-> invoking(m).instructions],
              [marker |-> "delegate", agent |-> agent, raised |-> error]>>
            \o ToolLog(calls)
            \o (IF records
                THEN <<[marker |-> "record", agent |-> agent,
                        failed |-> (error # NoError)]>>
                ELSE <<>>),
        mem |-> IF records
                THEN invoked(m, MessageList(messages),
                             MessageList(<<ChatMessage("assistant", <<>>)>>),
                             error)
                ELSE m]

\* Mutant of build_workflow: no edge into the writer; the start executor's
\* message goes to format_output.
build_workflow_without_writer ==
    [start |-> "triage_incident",
     triage_incident |-> "format_output",
     writer_executor |-> "format_output"]

\* Mutant of build_workflow: the writer's message goes back to the writer,
\* which delegates again.
build_workflow_retrying_writer ==
    [start |-> "triage_incident",
     triage_incident |-> "writer_executor",
     writer_executor |-> "writer_executor"]

\* build_workflow: set_start_executor(triage_incident) and the two add_edge
\* calls; the executor the message of each executor goes to.
build_workflow ==
    [start |-> "triage_incident",
     triage_incident |-> "writer_executor",
     writer_executor |-> "format_output"]

\* The two-stage chain over the executors the module defines beside it.
staged_workflow ==
    [start |-> "to_classifier_request",
     to_classifier_request |-> "classifier_executor",
     classifier_executor |-> "process_triage_and_enrich",
     process_triage_and_enrich |-> "writer_executor",
     writer_executor |-> "format_output"]

Workflow(g) == IF g = "simplified" THEN build_workflow ELSE staged_workflow

Ended == {"Formatted", "Failed"}

\* print(f"Failed to parse ...: {e}")
ParseDiagnostic(what, r) ==
    IF r.diagnostic THEN <<[marker |-> "parse_failed", what |-> what]>> ELSE <<>>

(***************************************************************************)
(* Spec: pipeline runs of one process, one after the other, over the       *)
(* process-wide memory.                                                    *)
(***************************************************************************)
Init ==
    /\ graph \in {"simplified", "staged"}
    /\ runNo = 1
    /\ pc = Workflow(graph).start
    /\ incident \in Incidents
    /\ outbox = <<>>
    /\ triage = NoTriage
    /\ plan = NoPlan
    /\ stages = <<"Started">>
    /\ log = <<>>
    /\ outputs = <<>>
    /\ failure = NoFailure
    /\ ParserIdle
    /\ MemIdle
    /\ MwIdle

\* to_classifier_request: the start executor of the staged chain.
to_classifier_request ==
    /\ pc = "to_classifier_request"
    /\ outbox' = UserPrompt(ClassifierPrompt(incident))
    /\ pc' = Workflow(graph).to_classifier_request
    /\ UNCHANGED <<graph, runNo, incident, triage, plan, stages, log, outputs,
                   failure, parserVars, memVars, mwVars>>

\* triage_incident: the start executor build_workflow wires; the three
\* lookups, then the request to the writer.
triage_incident ==
    /\ pc = "triage_incident"
    /\ \E failAt \in 0..Len(LookupNames), e \in Failures :
        /\ log' = log \o Enrich(incident.service, failAt)
        /\ IF failAt = 0
           THEN /\ stages' = Append(stages, "Enriched")
                /\ outbox' = UserPrompt(CombinedPrompt(incident))
                /\ pc' = Workflow(graph).triage_incident
                /\ failure' = failure
           ELSE /\ pc' = "Failed"
                /\ failure' = [source |-> "lookup", error |-> e]
                /\ UNCHANGED <<stages, outbox>>
    /\ UNCHANGED <<graph, runNo, incident, triage, plan, outputs,
                   parserVars, memVars, mwVars>>

\* An AgentExecutor: one delegation to the agent, run under
\* logging_agent_middleware; its response goes to the next executor, an
\* error it raises ends the run.
AgentExecutor(agent, answers, callLists) ==
    /\ pc = agent
    /\ \E answer \in answers, error \in Failures \cup {NoError},
          calls \in callLists, recordOnFailure \in BOOLEAN :
        LET run == AgentRun(mem, agent, outbox, error, calls, recordOnFailure)
            context == [messages |-> outbox, result |-> NoResult]
            out == logging_agent_middleware(
                       context, [error |-> run.error, after |-> context])
        IN /\ log' = log \o <<out.log[1]>> \o run.events \o Tail(out.log)
           /\ mem' = run.mem
           /\ IF out.outcome = "returned"
              THEN /\ response' = RAgentResponse(IF run.error = NoError
                                                 THEN answer ELSE TextInvalid)
                   /\ pc' = Workflow(graph)[agent]
                   /\ failure' = failure
              ELSE /\ pc' = "Failed"
                   /\ failure' =
                        [source |-> IF ToolAbort(calls) = NoError
                                    THEN "collaborator" ELSE "tool",
                         error |-> out.error]
                   /\ response' = response
    /\ UNCHANGED <<graph, runNo, incident, outbox, triage, plan, stages,
                   outputs, parsed, request, recorded, lastOp, mwVars>>

\* classifier_executor: the classifier agent has no tools.
classifier_executor ==
    AgentExecutor("classifier_executor", ClassifierOutputs, {<<>>})

writer_executor ==
    AgentExecutor("writer_executor", WriterOutputs, ToolCallLists)

\* Mutant of process_triage_and_enrich: a gate that holds every run back,
\* whatever the triage says.
process_triage_always_pending ==
    /\ pc = "process_triage_and_enrich"
    /\ triage' = parse_agent_response_to_triage(response).value
    /\ stages' = Append(stages, "Triaged")
    /\ pc' = "approval_pending"
    /\ UNCHANGED <<graph, runNo, incident, outbox, plan, log, outputs, failure,
                   parserVars, memVars, mwVars>>

\* process_triage_and_enrich: parse stage 1, the three lookups (of the
\* placeholder service "Unknown-Service"), then the request to the writer.
\* needs_approval is written into the prompt and tested nowhere.
process_triage_and_enrich ==
    /\ pc = "process_triage_and_enrich"
    /\ \E failAt \in 0..Len(LookupNames), e \in Failures :
        LET r == parse_agent_response_to_triage(response) IN
        IF r.outcome = "returned"
        THEN /\ triage' = r.value
             /\ log' = log \o ParseDiagnostic("triage", r)
                           \o Enrich(<<"Unknown-Service">>, failAt)
             /\ IF failAt = 0
                THEN /\ stages' = stages \o <<"Triaged", "Enriched">>
                     /\ outbox' = UserPrompt(WriterPrompt)
                     /\ pc' = Workflow(graph).process_triage_and_enrich
                     /\ failure' = failure
                ELSE /\ stages' = Append(stages, "Triaged")
                     /\ pc' = "Failed"
                     /\ failure' = [source |-> "lookup", error |-> e]
                     /\ outbox' = outbox
        ELSE /\ pc' = "Failed"
             /\ failure' = [source |-> "parser", error |-> NoError]
             /\ UNCHANGED <<triage, log, stages, outbox>>
    /\ UNCHANGED <<graph, runNo, incident, plan, outputs,
                   parserVars, memVars, mwVars>>

\* format_output: parse stage 2, render the report, yield it.
format_output ==
    /\ pc = "format_output"
    /\ LET r == parse_agent_response_to_plan(response) IN
       IF r.outcome = "returned"
       THEN /\ plan' = r.value
            /\ log' = log \o ParseDiagnostic("plan", r)
            /\ stages' = stages \o <<"Planned", "Formatted">>
            /\ outputs' = Append(outputs, Render(r.value))
            /\ pc' = "Formatted"
            /\ failure' = failure
       ELSE /\ pc' = "Failed"
            /\ failure' = [source |-> "parser", error |-> NoError]
            /\ UNCHANGED <<plan, log, stages, outputs>>
    /\ UNCHANGED <<graph, runNo, incident, outbox, triage,
                   parserVars, memVars, mwVars>>

\* Mutant of NewRun: every run gets a memory of its own, as constructed.
new_run_with_fresh_memory ==
    /\ pc \in Ended
    /\ runNo < MaxRuns
    /\ runNo' = runNo + 1
    /\ pc' = Workflow(graph).start
    /\ incident' \in Incidents
    /\ outbox' = <<>>
    /\ triage' = NoTriage
    /\ plan' = NoPlan
    /\ stages' = <<"Started">>
    /\ log' = <<>>
    /\ outputs' = <<>>
    /\ failure' = NoFailure
    /\ response' = ROther
    /\ mem' = FreshMemory
    /\ UNCHANGED <<graph, parsed, request, recorded, lastOp, mwVars>>

\* The next run of the workflow: a payload of its own, the memory of the
\* process (get_ops_memory) as the runs before left it.
NewRun ==
    /\ pc \in Ended
    /\ runNo < MaxRuns
    /\ runNo' = runNo + 1
    /\ pc' = Workflow(graph).start
    /\ incident' \in Incidents
    /\ outbox' = <<>>
    /\ triage' = NoTriage
    /\ plan' = NoPlan
    /\ stages' = <<"Started">>
    /\ log' = <<>>
    /\ outputs' = <<>>
    /\ failure' = NoFailure
    /\ response' = ROther
    /\ UNCHANGED <<graph, parsed, memVars, mwVars>>

Next ==
    \/ to_classifier_request
    \/ triage_incident
    \/ classifier_executor
    \/ process_triage_and_enrich
    \/ writer_executor
    \/ format_output
    \/ NewRun

Spec == Init /\ [][Next]_vars

Executors ==
    {"to_classifier_request", "triage_incident", "classifier_executor",
     "process_triage_and_enrich", "writer_executor", "format_output"}

\* The workflow runs the executor a message is delivered to: a run at an
\* executor moves on. The steps of Spec that move a run on from an executor
\* are the executors' own, and every executor can take its step.
Progress == pc \in Executors /\ pc' \in (Executors \cup Ended) \ {pc}

FairSpec == Spec /\ WF_pc(Progress)

(***************************************************************************)
(* Properties of the pipeline.                                             *)
(***************************************************************************)
Lookups == {i \in DOMAIN log : log[i].marker = "lookup"}

Delegations(agent) ==
    {i \in DOMAIN log : log[i].marker = "delegate" /\ log[i].agent = agent}

RaisedDelegations ==
    {i \in DOMAIN log : log[i].marker = "delegate" /\ log[i].raised # NoError}

\* failures of a delegation: of the collaborator (its tool calls included) or
\* of an enrichment lookup
DelegationSources == {"collaborator", "tool", "lookup"}

NeedsApproval == triage # NoTriage /\ triage.needs_approval
SafeTriage == triage # NoTriage /\ ~triage.needs_approval

Runs == 1..MaxRuns

\* C1 as claimed: while the triage of the run has needs_approval set (no
\* approval is ever supplied in the model), no enrichment lookup and no
\* plan-drafting delegation has been performed, and the run has not gone on
\* to the writer or the formatter.
C1_ApprovalGateHalts ==
    NeedsApproval =>
        /\ Lookups = {}
        /\ Delegations("writer_executor") = {}
        /\ pc \notin {"writer_executor", "format_output", "Formatted"}

\* C2: a run whose triage has needs_approval false is, at every moment, at an
\* executor or at its end (never held for approval); when it is Formatted it
\* went through the three lookups and one plan-drafting delegation; and it
\* eventually reaches Formatted unless a delegation (collaborator or lookup)
\* fails.
C2_SafeRunsProceed ==
    /\ [](SafeTriage =>
            /\ pc \in Executors \cup Ended
            /\ pc = "Formatted" =>
                /\ Cardinality(Lookups) = Len(LookupNames)
                /\ Cardinality(Delegations("writer_executor")) = 1
                /\ \A i \in Lookups : \A j \in Delegations("writer_executor") : i < j)
    /\ \A r \in Runs :
        (runNo = r /\ SafeTriage)
            ~> (/\ runNo = r
                /\ \/ pc = "Formatted"
                   \/ pc = "Failed" /\ failure.source \in DelegationSources)

\* C2 witness: a run of the two-stage chain whose classifier answered a valid
\* triage with needs_approval false has reached Formatted.
C2_Witness ==
    /\ graph = "staged"
    /\ pc = "Formatted"
    /\ SafeTriage
    /\ triage # FallbackTriage
    /\ Len(outputs) = 1

IsPrefix(s, t) == Len(s) <= Len(t) /\ s = SubSeq(t, 1, Len(s))

FiveStages == <<"Started", "Triaged", "Enriched", "Planned", "Formatted">>

\* The stages of a run to its end, by the chain the workflow is built from.
StageChain(g) ==
    IF g = "simplified"
    THEN <<"Started", "Enriched", "Planned", "Formatted">>
    ELSE FiveStages

LastEntry == log[Len(log)]

\* The entries a delegation leaves in the log after the call that raised.
AfterRaise ==
    {"tool_call", "tool_result", "tool_error", "record", "agent_error"}

RECURSIVE StepLinesOf(_)
StepLinesOf(rep) ==
    IF Len(rep) = 0 THEN <<>>
    ELSE (IF Head(rep).kind = "step" THEN <<Head(rep)>> ELSE <<>>)
         \o StepLinesOf(Tail(rep))

\* A report is whole: it opens and closes with the banners, and holds the
\* summary, the steps numbered from 1 in order, the customer message under
\* its heading and the internal note under its heading.
FullReport(rep, p) ==
    /\ Len(rep) > 6
    /\ SubSeq(rep, 1, 3) = <<Rule60, Line("OPSCOPILOT INCIDENT RESPONSE"), Rule60>>
    /\ SubSeq(rep, Len(rep) - 2, Len(rep))
         = <<Rule60, Line("END OF OPSCOPILOT RESPONSE"), Rule60>>
    /\ \E i \in DOMAIN rep : rep[i] = [kind |-> "summary", text |-> p.summary]
    /\ StepLinesOf(rep) =
         [i \in 1..Len(p.steps) |->
             [kind |-> "step", number |-> i, text |-> p.steps[i]]]
    /\ \E i \in 1..Len(rep) - 2 :
         SubSeq(rep, i, i + 2) =
             <<Line("CUSTOMER MESSAGE"), Rule40, Line(p.customer_message)>>
    /\ \E i \in 1..Len(rep) - 2 :
         SubSeq(rep, i, i + 2) =
             <<Line("INTERNAL NOTE"), Rule40, Line(p.internal_note)>>

\* C8: a run is Failed only on a failure of a delegation (collaborator, tool
\* call or lookup), never on a malformed stage output; a run that is
\* Formatted has yielded exactly one report, whole, of a well-formed plan
\* (the one decoded or the fallback); a run not Formatted has yielded
\* nothing; and every run eventually is Formatted unless a delegation fails.
C8_MalformedOutputStillReports ==
    /\ [](pc = "Failed" => failure.source \in DelegationSources)
    /\ [](pc = "Formatted" =>
            /\ Len(outputs) = 1
            /\ IsFinalPlan(plan)
            /\ FullReport(outputs[1], plan)
            /\ \/ plan = FallbackPlan
               \/ plan \in PlanDecodings(response))
    /\ [](pc # "Formatted" => outputs = <<>>)
    /\ \A r \in Runs :
        (runNo = r /\ pc \in Executors)
            ~> (/\ runNo = r
                /\ \/ pc = "Formatted"
                   \/ pc = "Failed" /\ failure.source \in DelegationSources)

\* C8 witness: in the two-stage chain both stage outputs were malformed and
\* replaced by the fallback instances, and the run is Formatted with one
\* report of the fallback plan.
C8_Witness ==
    /\ graph = "staged"
    /\ pc = "Formatted"
    /\ triage = FallbackTriage
    /\ plan = FallbackPlan
    /\ \E i \in DOMAIN log : log[i] = [marker |-> "parse_failed", what |-> "triage"]
    /\ \E i \in DOMAIN log : log[i] = [marker |-> "parse_failed", what |-> "plan"]
    /\ Len(outputs) = 1
    /\ FullReport(outputs[1], FallbackPlan)

(***************************************************************************)
(* MemorySpec: the memory under all its operations: record and prepare of  *)
(* a short request (at most one content, or a user message and an          *)
(* assistant message), set_language, clear, snapshot and serialize, in any *)
(* order.                                                                  *)
(***************************************************************************)
\* Values given to set_language.
Languages == {"hebrew", "Hebrew", "english", ""}

MemoryInit ==
    /\ mem = FreshMemory
    /\ request \in {r \in Requests :
                        \/ Len(r.items) <= 1
                        \/ /\ Len(r.items) = 2
                           /\ {r.items[1].start, r.items[2].start}
                                = {"user", "assistant"}}
    /\ recorded = FALSE
    /\ lastOp = NoOp
    /\ ParserIdle
    /\ MwIdle
    /\ PipeIdle

SetLanguage ==
    /\ \E language \in Languages :
        /\ mem' = set_language(mem, language)
        /\ lastOp' = [op |-> "set_language", main |-> FALSE, before |-> mem,
                      prev |-> lastOp.op, language |-> language]
    /\ UNCHANGED <<request, recorded, parserVars, mwVars, pipeVars>>

Clear ==
    /\ mem' = clear(mem)
    /\ lastOp' = [op |-> "clear", main |-> FALSE, before |-> mem,
                  prev |-> lastOp.op]
    /\ UNCHANGED <<request, recorded, parserVars, mwVars, pipeVars>>

\* snapshot (get_state)
Snapshot ==
    /\ lastOp' = [op |-> "get_state", main |-> FALSE, before |-> mem,
                  prev |-> lastOp.op, ret |-> get_state(mem)]
    /\ UNCHANGED <<mem, request, recorded, parserVars, mwVars, pipeVars>>

Serialize ==
    /\ lastOp' = [op |-> "serialize", main |-> FALSE, before |-> mem,
                  prev |-> lastOp.op, ret |-> serialize(mem)]
    /\ UNCHANGED <<mem, request, recorded, parserVars, mwVars, pipeVars>>

\* record (invoked) as the agent calls it after a delegation: with the
\* response messages, which may name a customer and a service, or with the
\* delegation's exception.
RecordAfterDelegation ==
    /\ \E response_messages \in
            {None,
             MessageList(<<ChatMessage("assistant",
                 <<TextContent(<<"C", "u", "s", "t", "o", "m", "e", "r", ":",
                                 " ", "b", "o", "b", " ", "s", "e", "r", "v",
                                 "i", "c", "e", ":", " ", "w", "e", "b">>)>>)>>)},
          invoke_exception \in {None} \cup {f \in Failures : f.base = "Exception"} :
        /\ mem' = invoked(mem, RequestMessages(request), response_messages,
                          invoke_exception)
        /\ lastOp' = [op |-> "invoked", main |-> FALSE, before |-> mem,
                      prev |-> lastOp.op, response |-> response_messages,
                      exception |-> invoke_exception]
    /\ recorded' = TRUE
    /\ UNCHANGED <<request, parserVars, mwVars, pipeVars>>

MemoryNext ==
    \/ RecordEarlier
    \/ Record
    \/ Prepare
    \/ SetLanguage
    \/ Clear
    \/ Snapshot
    \/ Serialize
    \/ RecordAfterDelegation

MemorySpec == MemoryInit /\ [][MemoryNext]_vars

\* C11: a record call whose user messages hold no customer marker leaves
\* last_customer as it was, and one whose user messages hold no service
\* marker leaves last_service as it was, whatever the other pattern did; no
\* record call turns a field that held a value into an absent one, and none
\* touches the language.
C11_RecordKeepsUnmatched ==
    lastOp.op = "invoked" =>
        /\ lastOp.before.last_customer # None => mem.last_customer # None
        /\ lastOp.before.last_service # None => mem.last_service # None
        /\ mem.preferred_language = lastOp.before.preferred_language
        /\ lastOp.main =>
            /\ Markers(request.items, "customer") = {} =>
                mem.last_customer = lastOp.before.last_customer
            /\ Markers(request.items, "service") = {} =>
                mem.last_service = lastOp.before.last_service

\* C11 witness: on a memory that held a customer and a service, a record
\* call with a service marker and no customer marker kept the customer and
\* replaced the service.
C11_Witness ==
    /\ lastOp.op = "invoked" /\ lastOp.main
    /\ lastOp.before.last_customer = <<"o", "l", "d">>
    /\ lastOp.before.last_service # None
    /\ Markers(request.items, "customer") = {}
    /\ Markers(request.items, "service") # {}
    /\ mem.last_customer = <<"o", "l", "d">>
    /\ mem.last_service # lastOp.before.last_service

\* C12 as claimed: prepare on a memory with an empty preferred_language, no
\* last_service and no last_customer returns no instructions.
C12_AbsentWhenNothingHeld ==
    (/\ lastOp.op = "invoking"
     /\ lastOp.before.preferred_language = ""
     /\ lastOp.before.last_service = None
     /\ lastOp.before.last_customer = None) =>
        lastOp.ret.instructions = None

\* C15: clear leaves last_customer and last_service absent and the language
\* as it was, and the prepare that follows it returns the language
\* directive of that language and nothing else.
C15_ClearKeepsLanguage ==
    /\ lastOp.op = "clear" =>
        /\ mem.last_customer = None
        /\ mem.last_service = None
        /\ mem.preferred_language = lastOp.before.preferred_language
    /\ (lastOp.op = "invoking" /\ lastOp.prev = "clear") =>
        lastOp.ret.instructions =
            IF mem.preferred_language \in {"hebrew", "Hebrew"}
            THEN <<"Respond in Hebrew when addressing the customer. Keep technical terms in English.">>
            ELSE <<"Respond in ", mem.preferred_language,
                   ". Keep answers concise.">>

\* C15 witness: clear on a memory that held a customer, a service and the
\* language english left only the language.
C15_Witness ==
    /\ lastOp.op = "clear"
    /\ lastOp.before.preferred_language = "english"
    /\ lastOp.before.last_customer # None
    /\ lastOp.before.last_service # None
    /\ mem = [preferred_language |-> "english", last_customer |-> None,
              last_service |-> None]

\* The tool-result entries the function-level wrapper logged.
ToolResultEntries ==
    IF mwOut.function = NoWrapper THEN {}
    ELSE {mwOut.function.log[i] : i \in
            {j \in 1..Len(mwOut.function.log) :
                mwOut.function.log[j].marker = "tool_result"}}

\* C16 as claimed: every logged tool-result rendering has at most 200
\* characters, and a rendering of at most 200 characters is logged unchanged.
C16_LoggedAtMostCap ==
    \A e \in ToolResultEntries :
        LET rendering == StrOf(mwOut.function.context.result)
        IN /\ Len(e.result) <= ResultCap
           /\ Len(rendering) <= ResultCap => e.result = rendering

\* C16 amended: a rendering of at most 200 characters is logged unchanged; a
\* longer one is logged as its first 200 characters followed by "...", 203
\* characters in all.
C16_LoggedCapPlusEllipsis ==
    \A e \in ToolResultEntries :
        LET rendering == StrOf(mwOut.function.context.result)
        IN /\ Len(rendering) <= ResultCap => e.result = rendering
           /\ Len(rendering) > ResultCap =>
                /\ Len(e.result) = ResultCap + 3
                /\ \A i \in 1..ResultCap : e.result[i] = rendering[i]
                /\ \A i \in 1..3 : e.result[ResultCap + i] = "."

\* C16 witness: a tool result of 201 characters was logged in 203.
C16_Witness ==
    /\ mwOut.level = "function"
    /\ mwOut.function.outcome = "returned"
    /\ mwOut.function.context.result.kind = "str"
    /\ Len(mwOut.function.context.result.chars) = ResultCap + 1
    /\ \E e \in ToolResultEntries : Len(e.result) = ResultCap + 3

\* What the parser that produced `parsed` returns for the stage output r.
SameParser(r) ==
    IF parsed.shape = "TriageResult"
    THEN parse_agent_response_to_triage(r)
    ELSE parse_agent_response_to_plan(r)

\* C19 as claimed: parsing a non-empty list gives what parsing its first
\* element alone gives, also when that first element is a list.
C19_ParseListAsFirstElement ==
    (/\ parsed # NotParsed
     /\ response.kind = "list"
     /\ Len(response.items) > 0) =>
        LET first == SameParser(response.items[1])
        IN /\ parsed.outcome = first.outcome
           /\ parsed.value = first.value

\* C19 amended: a non-empty list is unwrapped once. When its first element
\* is no list, parsing the list gives what parsing the first element gives;
\* when its first element is a list, the fallback instance is returned with
\* no diagnostic. The elements after the first have no influence.
C19_UnwrapsOnce ==
    (/\ parsed # NotParsed
     /\ response.kind = "list"
     /\ Len(response.items) > 0) =>
        LET head == response.items[1]
            first == SameParser(head)
        IN /\ parsed.outcome = "returned"
           /\ head.kind # "list" =>
                /\ parsed.value = first.value
                /\ parsed.diagnostic = first.diagnostic
           /\ head.kind = "list" =>
                /\ parsed.value = IF parsed.shape = "TriageResult"
                                  THEN FallbackTriage ELSE FallbackPlan
                /\ ~parsed.diagnostic

\* C19 witness: a list holding a list holding a valid mapping was parsed to
\* the fallback, and the inner list alone parses to the mapping's instance.
C19_Witness ==
    /\ response = RList(<<RList(<<RDict(BaseTriageDoc)>>)>>)
    /\ parsed # NotParsed
    /\ parsed.shape = "TriageResult"
    /\ parsed.value = FallbackTriage
    /\ SameParser(response.items[1]).value = TriageOf(BaseTriageDoc)
    /\ TriageOf(BaseTriageDoc) # FallbackTriage

\* The lines of a report that are section headings, in order.
RECURSIVE HeadingsOf(_)
HeadingsOf(rep) ==
    IF Len(rep) = 0 THEN <<>>
    ELSE (IF Head(rep) \in {Line("PLAN"), Line("CUSTOMER MESSAGE"),
                            Line("INTERNAL NOTE")}
          THEN <<Head(rep).text>> ELSE <<>>)
         \o HeadingsOf(Tail(rep))

\* C17: format_output never fails, and the report of a Formatted run holds,
\* for the plan it parsed (the fallback and a plan without steps included):
\* the heading PLAN, then the summary, then the steps in their order
\* numbered 1..n on consecutive lines; the heading CUSTOMER MESSAGE, a rule
\* and the customer message; the heading INTERNAL NOTE, a rule and the
\* internal note; the three headings once each, in that order.
C17_ReportLayout ==
    /\ pc = "Failed" => failure.source # "parser"
    /\ pc = "Formatted" =>
        LET rep == outputs[Len(outputs)]
            n == Len(plan.steps)
        IN /\ IsFinalPlan(plan)
           /\ Len(rep) = n + 24
           /\ HeadingsOf(rep) = <<"PLAN", "CUSTOMER MESSAGE", "INTERNAL NOTE">>
           /\ rep[6] = Line("PLAN")
           /\ rep[8] = [kind |-> "summary", text |-> plan.summary]
           /\ \A i \in 1..n :
                rep[10 + i] = [kind |-> "step", number |-> i,
                               text |-> plan.steps[i]]
           /\ Len(StepLinesOf(rep)) = n
           /\ rep[n + 13] = Line("CUSTOMER MESSAGE")
           /\ rep[n + 15] = Line(plan.customer_message)
           /\ rep[n + 18] = Line("INTERNAL NOTE")
           /\ rep[n + 20] = Line(plan.internal_note)

\* C17 witness: a plan of three steps was rendered, its steps on lines 11
\* to 13 numbered 1 to 3.
C17_Witness ==
    /\ pc = "Formatted"
    /\ plan = PlanOf(BasePlanDoc)
    /\ Len(plan.steps) = 3
    /\ LET rep == outputs[Len(outputs)]
       IN /\ rep[11] = [kind |-> "step", number |-> 1, text |-> plan.steps[1]]
          /\ rep[13] = [kind |-> "step", number |-> 3, text |-> plan.steps[3]]
          /\ rep[18] = Line(plan.customer_message)

\* C18: within one run each collaborator is delegated to at most once and
\* each enrichment lookup is made at most once; the agent-level wrapper has
\* been entered as many times as the collaborator was called (one call of
\* the wrapped step per invocation); and after a delegation or a lookup
\* that raised, the run makes no further delegation or lookup.
C18_NoRetry ==
    /\ \A agent \in {"classifier_executor", "writer_executor"} :
            Cardinality(Delegations(agent)) <= 1
    /\ \A i, j \in Lookups : log[i].name = log[j].name => i = j
    /\ CountMarker(log, "agent_start") = CountMarker(log, "delegate")
    /\ \A i \in DOMAIN log :
            ((log[i].marker = "delegate" /\ log[i].raised # NoError)
             \/ (log[i].marker = "lookup" /\ log[i].raised)) =>
                /\ pc = "Failed"
                /\ \A j \in (i + 1)..Len(log) :
                        log[j].marker \notin {"delegate", "lookup", "agent_start"}

\* C18 witness: the writer's delegation raised; the run is Failed with that
\* one delegation and the lookups before it, each made once.
C18_Witness ==
    /\ pc = "Failed"
    /\ failure.source = "collaborator"
    /\ Cardinality(Delegations("writer_executor")) = 1
    /\ \E i \in RaisedDelegations : log[i].agent = "writer_executor"
    /\ Cardinality(Lookups) = Len(LookupNames)

\* The stage-1 output of the run failed to parse.
Stage1Malformed ==
    \E i \in DOMAIN log : log[i] = [marker |-> "parse_failed", what |-> "triage"]

\* C20: a run whose stage-1 output failed to parse carries the fallback
\* TriageResult (needs_approval false, no approval_action), has gone on to
\* the enrichment lookups and stands at the writer or beyond, Failed only by
\* a delegation; and it always goes on to Formatted unless a delegation
\* fails. It is never held for an approval.
C20_FallbackNeverPending ==
    /\ [](Stage1Malformed =>
            /\ triage = FallbackTriage
            /\ ~triage.needs_approval
            /\ triage.approval_action = "None"
            /\ Lookups # {}
            /\ pc \in {"writer_executor", "format_output"} \cup Ended
            /\ pc = "Failed" => failure.source \in DelegationSources
            /\ pc # "Failed" => Cardinality(Lookups) = Len(LookupNames)
            /\ pc \in {"format_output", "Formatted"} =>
                    Cardinality(Delegations("writer_executor")) = 1)
    /\ Stage1Malformed
        ~> (\/ pc = "Formatted"
            \/ pc = "Failed" /\ failure.source \in DelegationSources)

\* C20 witness: the classifier's answer asked for restart_service with
\* needs_approval true but lacked the severity; the run took the fallback,
\* made the three lookups and stands at the writer.
C20_Witness ==
    /\ graph = "staged"
    /\ pc = "writer_executor"
    /\ response = RAgentResponse(TextObject(Without(BaseTriageDoc, "severity")))
    /\ BaseTriageDoc["needs_approval"] = JBool(TRUE)
    /\ Stage1Malformed
    /\ triage = FallbackTriage
    /\ Cardinality(Lookups) = Len(LookupNames)

\* C13: every collaborator delegation of a run has a prepare of the same
\* agent directly before it, and every delegation that returned (whether
\* its output then parsed or fell back) has a record of the same agent
\* after it, with nothing but that delegation's tool calls in between; no
\* prepare and no record happens away from a delegation.
C13_PrepareDelegateRecord ==
    /\ \A i \in DOMAIN log :
        log[i].marker = "delegate" =>
            /\ i > 1
            /\ log[i - 1].marker = "prepare"
            /\ log[i - 1].agent = log[i].agent
            /\ log[i].raised = NoError =>
                \E j \in (i + 1)..Len(log) :
                    /\ log[j] = [marker |-> "record", agent |-> log[i].agent,
                                 failed |-> FALSE]
                    /\ \A k \in (i + 1)..(j - 1) :
                            log[k].marker \in
                                {"tool_call", "tool_result", "tool_error"}
    /\ CountMarker(log, "prepare") = CountMarker(log, "delegate")
    /\ CountMarker(log, "record") <= CountMarker(log, "delegate")

\* C13 witness: a run of the two-stage chain whose stage-1 output fell back
\* and whose stage-2 output parsed is Formatted, with two delegations, two
\* prepare calls and two record calls.
C13_Witness ==
    /\ graph = "staged"
    /\ pc = "Formatted"
    /\ Stage1Malformed
    /\ plan = PlanOf(BasePlanDoc)
    /\ CountMarker(log, "delegate") = 2
    /\ CountMarker(log, "prepare") = 2
    /\ CountMarker(log, "record") = 2

(***************************************************************************)
(* ConcurrentSpec: runs of the workflow wired by build_workflow, in flight  *)
(* together on one event loop over the one OpsMemory of the process         *)
(* (get_ops_memory). In this specification pc, incident and outbox are      *)
(* functions of the run; outbox holds the instructions the run's agent got  *)
(* from invoking. A run is suspended only where the code awaits: while the  *)
(* collaborator is called. invoking and invoked are coroutines without an   *)
(* await in their bodies and take no lock: each runs from its first line to *)
(* its return before another run is resumed.                                *)
(***************************************************************************)
\* runs in flight together
MaxConcurrent == 2

ConcurrentRuns == 1..MaxConcurrent

\* The memory is as constructed, or as an earlier run of the process left it.
ConcurrentInit ==
    /\ mem \in {FreshMemory}
               \cup {invoked(FreshMemory,
                             MessageList(UserPrompt(CombinedPrompt(inc))),
                             None, None) : inc \in Incidents}
    /\ pc = [r \in ConcurrentRuns |-> "writer_executor"]
    /\ incident \in [ConcurrentRuns -> Incidents]
    /\ lastOp = NoOp
    /\ request = [items |-> <<>>, single |-> FALSE]
    /\ recorded = FALSE
    /\ graph = "simplified"
    /\ runNo = 0
    /\ outbox = [r \in ConcurrentRuns |-> None]
    /\ triage = NoTriage
    /\ plan = NoPlan
    /\ stages = <<>>
    /\ log = <<>>
    /\ outputs = <<>>
    /\ failure = NoFailure
    /\ ParserIdle
    /\ MwIdle

\* The agent run of run r begins: invoking, then the call of the
\* collaborator is awaited.
RunPrepare(r) ==
    /\ pc[r] = "writer_executor"
    /\ lastOp' = [op |-> "invoking", run |-> r, before |-> mem,
                  ret |-> invoking(mem)]
    /\ outbox' = [outbox EXCEPT ![r] = invoking(mem).instructions]
    /\ pc' = [pc EXCEPT ![r] = "awaiting"]
    /\ UNCHANGED <<mem, request, recorded, graph, runNo, incident,
                   triage, plan, stages, log, outputs, failure,
                   parserVars, mwVars>>

\* The collaborator answers run r; the run can be resumed.
RunAnswered(r) ==
    /\ pc[r] = "awaiting"
    /\ lastOp' = [op |-> "answered", run |-> r]
    /\ pc' = [pc EXCEPT ![r] = "answered"]
    /\ UNCHANGED <<mem, request, recorded, graph, runNo, incident, outbox,
                   triage, plan, stages, log, outputs, failure,
                   parserVars, mwVars>>

\* Mutant of RunRecord: the record call is cut after its first assignment;
\* the update of last_service is lost.
run_record_torn(r) ==
    /\ pc[r] = "answered"
    /\ mem' = [mem EXCEPT !.last_customer =
                invoked(mem, MessageList(UserPrompt(CombinedPrompt(incident[r]))),
                        None, None).last_customer]
    /\ lastOp' = [op |-> "invoked", run |-> r, before |-> mem]
    /\ pc' = [pc EXCEPT ![r] = "format_output"]
    /\ UNCHANGED <<request, recorded, graph, runNo, incident, outbox,
                   triage, plan, stages, log, outputs, failure,
                   parserVars, mwVars>>

\* Run r is resumed: invoked on the request triage_incident sent.
RunRecord(r) ==
    /\ pc[r] = "answered"
    /\ mem' = invoked(mem, MessageList(UserPrompt(CombinedPrompt(incident[r]))),
                      None, None)
    /\ lastOp' = [op |-> "invoked", run |-> r, before |-> mem]
    /\ pc' = [pc EXCEPT ![r] = "format_output"]
    /\ UNCHANGED <<request, recorded, graph, runNo, incident, outbox,
                   triage, plan, stages, log, outputs, failure,
                   parserVars, mwVars>>

ConcurrentNext ==
    \E r \in ConcurrentRuns : RunPrepare(r) \/ RunAnswered(r) \/ RunRecord(r)

ConcurrentSpec == ConcurrentInit /\ [][ConcurrentNext]_vars

\* The memory as constructed or as one whole record call of a run leaves it.
WholeMemories ==
    {FreshMemory}
    \cup {[preferred_language |-> "hebrew", last_customer |-> inc.customer,
           last_service |-> inc.service] : inc \in Incidents}

\* C14: under every interleaving of the runs, the memory is at every moment
\* as constructed or as one whole record call left it (never the customer
\* of one run with the service of another); right after the record call of
\* a run both fields are that run's (no update lost); and every prepare
\* call read such a whole memory and returned the instructions built from
\* it, which the run holds while it is suspended.
C14_CallsIndivisible ==
    /\ mem \in WholeMemories
    /\ \A r \in ConcurrentRuns :
        outbox[r] # None =>
            \E w \in WholeMemories : outbox[r] = invoking(w).instructions
    /\ lastOp.op = "invoked" =>
        /\ mem.last_customer = incident[lastOp.run].customer
        /\ mem.last_service = incident[lastOp.run].service
        /\ mem.preferred_language = lastOp.before.preferred_language
    /\ lastOp.op = "invoking" =>
        /\ lastOp.before \in WholeMemories
        /\ lastOp.before = mem
        /\ lastOp.ret.instructions =
            IF mem = FreshMemory THEN HebrewDirective
            ELSE HebrewDirective
                 \o <<" ", "Context: Previous interaction involved service '">>
                 \o mem.last_service \o <<"'.">>
                 \o <<" ", "Context: Previous customer was '">>
                 \o mem.last_customer \o <<"'.">>

\* C14 witness: while run 1 is suspended between its prepare and its record
\* (its collaborator has answered), run 2, on another incident, has made its
\* record call on the shared memory.
C14_Witness ==
    /\ pc[1] = "answered"
    /\ pc[2] = "format_output"
    /\ incident[1] # incident[2]
    /\ lastOp.op = "invoked"
    /\ lastOp.run = 2
    /\ mem.last_customer = incident[2].customer
    /\ mem.last_service = incident[2].service

\* C21: the memory is constructed with the language hebrew; a set_language
\* call leaves preferred_language equal to its argument, as given; no other
\* call (prepare, record, clear, snapshot, serialize) changes
\* preferred_language, so it is always the argument of the most recent
\* set_language call; and prepare, snapshot and serialize change no field.
C21_LanguageOnlyBySetLanguage ==
    /\ [](lastOp = NoOp => mem.preferred_language = "hebrew")
    /\ [][/\ lastOp'.op = "set_language" =>
                mem'.preferred_language = lastOp'.language
          /\ lastOp'.op # "set_language" =>
                mem'.preferred_language = mem.preferred_language
          /\ lastOp'.op \in {"invoking", "get_state", "serialize"} =>
                mem' = mem]_vars

\* C21 witness: serialize on a memory whose language was set to Hebrew and
\* that holds a customer returned the three fields and changed none.
C21_Witness ==
    /\ lastOp.op = "serialize"
    /\ mem.preferred_language = "Hebrew"
    /\ mem.last_customer # None
    /\ lastOp.before = mem
    /\ lastOp.ret = [json |-> "object",
                     m |-> [preferred_language |-> "Hebrew",
                            last_customer |-> mem.last_customer,
                            last_service |-> mem.last_service]]

\* C22: after a record call made with response messages or with the
\* delegation's exception, each of last_customer and last_service is the
\* token of the marker in the request's user messages, or what it was
\* before the call when the user messages hold no such marker; the
\* language is unchanged. The response messages, the exception and the
\* request messages of another role have no part in it.
C22_OnlyUserRequestText ==
    (lastOp.op = "invoked" /\ "response" \in DOMAIN lastOp) =>
        /\ mem.last_customer =
            IF Markers(request.items, "customer") # {}
            THEN FirstTokenOfLastMessage(request.items, "customer")
            ELSE lastOp.before.last_customer
        /\ mem.last_service =
            IF Markers(request.items, "service") # {}
            THEN FirstTokenOfLastMessage(request.items, "service")
            ELSE lastOp.before.last_service
        /\ mem.preferred_language = lastOp.before.preferred_language

\* C22 witness: a record call with an assistant request message naming a
\* customer, a user request message naming a service, a response naming
\* another customer and service, and an exception: only the service of the
\* user message was stored.
C22_Witness ==
    /\ lastOp.op = "invoked"
    /\ "response" \in DOMAIN lastOp
    /\ lastOp.response # None
    /\ lastOp.exception # None
    /\ Len(request.items) = 2
    /\ request.items[1].start = "assistant"
    /\ request.items[1].phrase.token = Acme1
    /\ request.items[2].start = "user"
    /\ request.items[2].phrase.token = BillingApi
    /\ lastOp.before.last_customer = <<"o", "l", "d">>
    /\ mem.last_customer = <<"o", "l", "d">>
    /\ mem.last_service = BillingApi

\* C23: the memory is one for every agent and every run. A new run begins
\* with the memory as the runs before left it; every prepare of any agent
\* returns the directive followed by the notes of the service and the
\* customer the memory holds at that moment, whichever run or agent
\* recorded them; and the memory changes only in a step that makes a record
\* call, so a token stays in the instructions until a later record
\* overwrites it.
C23_MemorySharedAcrossRuns ==
    [][/\ runNo' # runNo => mem' = mem
       /\ \A i \in DOMAIN log' :
            (i > Len(log) /\ log'[i].marker = "prepare") =>
                log'[i].instructions =
                    <<"Respond in Hebrew when addressing the customer. Keep technical terms in English.">>
                    \o (IF mem.last_service # None
                        THEN <<" ", "Context: Previous interaction involved service '">>
                             \o mem.last_service \o <<"'.">>
                        ELSE <<>>)
                    \o (IF mem.last_customer # None
                        THEN <<" ", "Context: Previous customer was '">>
                             \o mem.last_customer \o <<"'.">>
                        ELSE <<>>)
       /\ mem' # mem =>
            \E i \in DOMAIN log' : i > Len(log) /\ log'[i].marker = "record"]_vars

\* C23 witness: the second run, on incident INC-1 (checkout-api, acme), has
\* called the writer, whose prepare returned the notes of billing-api and
\* acme-1, the service and the customer of the first run's incident.
C23_Witness ==
    /\ graph = "simplified"
    /\ runNo = 2
    /\ incident.id = "INC-1"
    /\ \E i \in DOMAIN log :
        /\ log[i].marker = "prepare"
        /\ log[i].agent = "writer_executor"
        /\ log[i].instructions =
            <<"Respond in Hebrew when addressing the customer. Keep technical terms in English.",
              " ", "Context: Previous interaction involved service '">>
            \o BillingApi
            \o <<"'.", " ", "Context: Previous customer was '">>
            \o Acme1 \o <<"'.">>

====
